---------------------------- MODULE Spec2Model ----------------------------
(***************************************************************************)
(* The data flow run life cycle of "Create and run a data flow with Watson *)
(* Data APIs": the data flows service as the notebook documents it         *)
(* (sections 3.1 - 3.5) and the requests the notebook issues against it   *)
(* (create a data flow, run it, read the run summary, read the run logs)   *)
(* through the ids it keeps in data_flow_id and data_flow_run_id.          *)
(*                                                                         *)
(* "Use quantum operations to achieve computing objectives", which is kept *)
(* in the same file: the cells that build the adder circuit qc, execute it *)
(* on the simulator and on a device, and tally the result.                 *)
(***************************************************************************)
EXTENDS Integers, Sequences, FiniteSets

\* ------------------------------------------------------------------ bounds
MaxFlows == 1     \* data flows created in one behaviour
MaxRuns == 2      \* runs created in one behaviour
MaxRows == 1      \* rows read by the runs that exist together
MaxOffset == 4    \* largest offset of a logs request
MaxLimit == 2     \* largest limit of a logs request
Shots == 2        \* shots of an execution of the circuit (1024 in the notebook)

VARIABLES
    dataFlows,      \* data flow id -> the data flow stored by the service
    runs,           \* run id -> the data flow run asset
    nextFlowId,     \* data flow ids handed out so far
    nextRunId,      \* run ids handed out so far
    data_flow_id,   \* the notebook's variable: id of the data flow it created
    data_flow_run_id, \* the notebook's variable: id of the run it requested
    response,       \* what the step just taken returned to the notebook
    cell,           \* the quantum notebook: the cell that was run last
    qc,             \* its circuit: the operations added so far, in order
    result,         \* the counts of the execution on the simulator
    result_counts,  \* the counts of the execution on the device
    result_frequencies, \* the tally of the outcomes of q3 q2
    stdout          \* what the cell of the device run has printed

vars == <<dataFlows, runs, nextFlowId, nextRunId, data_flow_id, data_flow_run_id, response,
          cell, qc, result, result_counts, result_frequencies, stdout>>

\* What the service holds, and what the notebook holds.
service == <<dataFlows, runs, nextFlowId, nextRunId>>
notebook == <<data_flow_id, data_flow_run_id>>

\* The variables of the quantum notebook, and those of the data flow notebook.
quantum == <<cell, qc, result, result_counts, result_frequencies, stdout>>
dataflows == <<service, notebook, response>>

\* ------------------------------------------------------------- run states
\* 3.2 Run state life cycle: the values of the `state` attribute.
States == {"starting", "queued", "running", "finished", "error", "stopping", "stopped"}

\* "The run states that define phases of progress"
PhaseStates == {"starting", "queued", "running", "stopping"}

\* "The run states that define states of completion"
CompletionStates == {"finished", "error", "stopped"}

\* ------------------------------------------------------------- error field
\* The `error` attribute of a run asset: absent, or the payload of 3.5
\* ({"error": {"trace": ..., "errors": [{"code", "message", "extra"}]}}).
NoError == [present |-> FALSE, errors |-> <<>>]

\* What the engine can tell about a failure: "" stands for "this information
\* is not available from the engine".
EngineDescriptions == {"", "CDICO2005E"}

GeneralMessage == "general_failure"

\* Faulty variant of ErrorPayload: the engine's description is stored as it
\* comes, with no general message when there is none.
ErrorPayload_NoFallback(code, description) ==
    [present |-> TRUE,
     errors  |-> << [code |-> code, message |-> description] >>]

\* "the run asset itself has an attribute called `error` which is set to a
\* concise description of the error (where available from the engine). If
\* this information is not available from the engine, a more general message
\* is set in the `error` attribute."
ErrorPayload(code, description) ==
    [present |-> TRUE,
     errors  |-> << [code    |-> code,
                     message |-> IF description = "" THEN GeneralMessage
                                                    ELSE description] >>]

\* ----------------------------------------------------------------- summary
\* The `summary` attribute: absent in the response to the run request,
\* present with the row counts once the engine reports.
NoSummary == [present |-> FALSE, total_rows_read |-> 0, total_rows_written |-> 0]

\* -------------------------------------------------------------------- logs
\* An entry of "the logs produced by the engine": its event_id and its
\* message_text (the example of 3.5 shows the events 0, 1, 2, 4, 5 and 14 of a
\* run: not every event of a run is in its logs).
LogEntry(event_id, message_text) ==
    [event_id |-> event_id, message_text |-> message_text]

\* Faulty variant of LogEvent: the newest entry is put first.
LogEvent_Prepend(run, message_text) ==
    [run EXCEPT !.logs = << LogEntry(run.events, message_text) >> \o @,
                !.events = @ + 1]

\* The run with one more event, which is in its logs.
LogEvent(run, message_text) ==
    [run EXCEPT !.logs = Append(@, LogEntry(run.events, message_text)),
                !.events = @ + 1]

\* The run with one more event, which is not in its logs.
SkipEvent(run) == [run EXCEPT !.events = @ + 1]

\* The `limit` of a logs request that names none ("limit": 100).
DefaultLimit == 100

Min(a, b) == IF a < b THEN a ELSE b

\* Faulty variant of LogsPage: the page ends one entry too late.
LogsPage_Inclusive(logs, offset, limit) ==
    SubSeq(logs, offset + 1, Min(offset + limit + 1, Len(logs)))

\* The `logs` of a response with the given `offset` and `limit`: at most
\* limit entries, from the one after the first offset entries on.
LogsPage(logs, offset, limit) ==
    SubSeq(logs, offset + 1, Min(offset + limit, Len(logs)))

\* ------------------------------------------------------------ the requests
\* A response that carries no run asset.
NoResponse ==
    [op |-> "none", id |-> 0, data_flow_ref |-> 0, state |-> "none",
     error |-> NoError, summary |-> NoSummary,
     logs |-> << >>, offset |-> 0, limit |-> 0, total_count |-> 0,
     nodes |-> << >>]

\* The entity of a run asset as a GET or POST returns it.
RunResponse(op, id, run) ==
    [NoResponse EXCEPT !.op = op, !.id = id, !.data_flow_ref = run.data_flow_ref,
                       !.state = run.state, !.error = run.error,
                       !.summary = run.summary]

Init ==
    /\ dataFlows = << >>
    /\ runs = << >>
    /\ nextFlowId = 0
    /\ nextRunId = 0
    /\ data_flow_id = 0
    /\ data_flow_run_id = 0
    /\ response = NoResponse
    /\ cell = "registers"
    /\ qc = << >>
    /\ result = << >>
    /\ result_counts = << >>
    /\ result_frequencies = << >>
    /\ stdout = << >>

\* --------------------------------------------------------------- the flow
\* 2.2 Defining a source: a binding node with one output and no inputs.
source_binding_node ==
    [id     |-> "source1",
     type   |-> "binding",
     output |-> [id |-> "source1Output"]]

\* 2.3 Defining an operation: the execution node of the filter, whose input
\* port is linked to the output port of the source.
filter_operation ==
    [id      |-> "operation1",
     type    |-> "execution_node",
     inputs  |-> << [id    |-> "inputPort1",
                     links |-> << [node_id_ref |-> "source1",
                                   port_id_ref |-> "source1Output"] >>] >>,
     outputs |-> << [id |-> "outputPort1"] >>]

\* 2.4 Defining a target: a binding node with one input and no outputs, whose
\* input port is linked to the output port of the operation.
target_binding_node ==
    [id    |-> "target1",
     type  |-> "binding",
     input |-> [id   |-> "target1Input",
                link |-> [node_id_ref |-> "operation1",
                          port_id_ref |-> "outputPort1"]]]

\* Faulty variant of dataflow: the target is appended before the operation.
dataflow_TargetFirst ==
    [nodes |-> Append(Append(Append(<< >>, source_binding_node),
                             target_binding_node),
                      filter_operation)]

\* 2.5: the pipeline "pipeline1" of the request, with its empty list of
\* nodes, to which the three nodes are appended.
dataflow ==
    [nodes |-> Append(Append(Append(<< >>, source_binding_node),
                             filter_operation),
                      target_binding_node)]

\* 2.5 Creating the data flow: POST /v2/data_flows.  The service stores the
\* flow and returns its pipeline; whether the connection or data asset its binding nodes reference
\* exists is a fact of the project, not of the request.  The notebook keeps
\* metadata.asset_id of the response as data_flow_id.
CreateDataFlow(refsExist) ==
    /\ nextFlowId < MaxFlows
    /\ nextFlowId' = nextFlowId + 1
    /\ dataFlows' = [d \in DOMAIN dataFlows \cup {nextFlowId + 1} |->
                        IF d = nextFlowId + 1
                        THEN [refs_exist |-> refsExist]
                        ELSE dataFlows[d]]
    /\ response' = [NoResponse EXCEPT !.op = "create_data_flow",
                                       !.data_flow_ref = nextFlowId + 1,
                                       !.nodes = dataflow.nodes]
    /\ data_flow_id' = nextFlowId + 1
    /\ UNCHANGED <<runs, nextRunId, data_flow_run_id, quantum>>

\* Faulty variant of NewRun: the asset is created already handed to the engine.
NewRun_Queued(d) ==
    [data_flow_ref |-> d,
     refs_exist    |-> dataFlows[d].refs_exist,
     state         |-> "queued",
     summary       |-> NoSummary,
     error         |-> NoError,
     logs          |-> << LogEntry(0, "Job requested") >>,
     events        |-> 1]

\* The run asset the service creates for a run request; the request is the
\* first event of the run ("Job requested for activity ... with run id ...").
NewRun(d) ==
    [data_flow_ref |-> d,
     refs_exist    |-> dataFlows[d].refs_exist,
     state         |-> "starting",
     summary       |-> NoSummary,
     error         |-> NoError,
     logs          |-> << LogEntry(0, "Job requested") >>,
     events        |-> 1]

\* Faulty variant of Submit: a run request for a data flow whose references
\* do not exist is refused, and no run asset is created for it.
Submit_Rejects(d) ==
    /\ d \in DOMAIN dataFlows
    /\ nextRunId < MaxRuns
    /\ IF dataFlows[d].refs_exist
       THEN /\ nextRunId' = nextRunId + 1
            /\ runs' = [r \in DOMAIN runs \cup {nextRunId + 1} |->
                            IF r = nextRunId + 1 THEN NewRun(d) ELSE runs[r]]
            /\ response' = RunResponse("submit", nextRunId + 1, NewRun(d))
            /\ data_flow_run_id' = nextRunId + 1
       ELSE /\ response' = [NoResponse EXCEPT !.op = "submit", !.data_flow_ref = d]
            /\ UNCHANGED <<runs, nextRunId, data_flow_run_id>>
    /\ UNCHANGED <<dataFlows, nextFlowId, data_flow_id, quantum>>

\* Faulty variant of Submit: the new asset is stored under the id handed out
\* last, so that the second run of a behaviour takes the place of the first.
Submit_Overwrites(d) ==
    /\ d \in DOMAIN dataFlows
    /\ nextRunId < MaxRuns
    /\ nextRunId' = nextRunId + 1
    /\ LET id == IF nextRunId = 0 THEN 1 ELSE nextRunId
       IN  /\ runs' = [r \in DOMAIN runs \cup {id} |->
                           IF r = id THEN NewRun(d) ELSE runs[r]]
           /\ response' = RunResponse("submit", id, NewRun(d))
           /\ data_flow_run_id' = id
    /\ UNCHANGED <<dataFlows, nextFlowId, data_flow_id, quantum>>

\* 3.3 Run a data flow: POST /v2/data_flows/{data_flow_id}/runs.  "Each time
\* a data flow is run, a new data flow run asset is created"; the response
\* carries the new asset, whose id the notebook keeps as data_flow_run_id.
\* The notebook shows the request for a data flow that exists only.
Submit(d) ==
    /\ d \in DOMAIN dataFlows
    /\ nextRunId < MaxRuns
    /\ nextRunId' = nextRunId + 1
    /\ runs' = [r \in DOMAIN runs \cup {nextRunId + 1} |->
                    IF r = nextRunId + 1 THEN NewRun(d) ELSE runs[r]]
    /\ response' = RunResponse("submit", nextRunId + 1, NewRun(d))
    /\ data_flow_run_id' = nextRunId + 1
    /\ UNCHANGED <<dataFlows, nextFlowId, data_flow_id, quantum>>

\* Faulty variant of GetStatus: the request makes the service move a pending
\* run on before it answers.
GetStatus_Refreshes(r) ==
    /\ r \in DOMAIN runs
    /\ runs' = IF runs[r].state = "queued"
               THEN [runs EXCEPT ![r].state = "running",
                                 ![r].summary = [NoSummary EXCEPT !.present = TRUE]]
               ELSE runs
    /\ response' = RunResponse("get_status", r, runs'[r])
    /\ UNCHANGED <<dataFlows, nextFlowId, nextRunId, notebook, quantum>>

\* 3.4 Get a data flow run summary: GET .../runs/{data_flow_run_id}, for a
\* run that exists; the response is the run asset as it is at that moment.
GetStatus(r) ==
    /\ r \in DOMAIN runs
    /\ response' = RunResponse("get_status", r, runs[r])
    /\ UNCHANGED <<service, notebook, quantum>>

\* 3.5: GET .../runs/{data_flow_run_id}/logs, for a run that exists.  The
\* response carries `offset` and `limit` as requested (the `first` and `last`
\* links of the example carry them as query parameters), the entries of that
\* page in `logs`, and the number of entries there are in `total_count`.
GetLogs(r, offset, limit) ==
    /\ r \in DOMAIN runs
    /\ response' = [NoResponse EXCEPT
                        !.op = "get_logs", !.id = r,
                        !.data_flow_ref = runs[r].data_flow_ref,
                        !.logs = LogsPage(runs[r].logs, offset, limit),
                        !.offset = offset, !.limit = limit,
                        !.total_count = Len(runs[r].logs)]
    /\ UNCHANGED <<service, notebook, quantum>>

\* A run asset with some of its attributes replaced.
WithRun(r, run) == [runs EXCEPT ![r] = run]

\* Faulty variant of EngineSend: the run goes straight into execution.
EngineSend_SkipQueued(r) ==
    /\ r \in DOMAIN runs
    /\ runs[r].state = "starting"
    /\ runs[r].refs_exist
    /\ runs' = WithRun(r, SkipEvent(LogEvent(
                    [runs[r] EXCEPT !.state = "running",
                                    !.summary = [NoSummary EXCEPT !.present = TRUE]],
                    "Job execution started")))
    /\ response' = NoResponse
    /\ UNCHANGED <<dataFlows, nextFlowId, nextRunId, notebook, quantum>>

\* Faulty variant of EngineSend: the references of the flow are not looked at.
EngineSend_Unchecked(r) ==
    /\ r \in DOMAIN runs
    /\ runs[r].state = "starting"
    /\ runs' = WithRun(r, LogEvent([runs[r] EXCEPT !.state = "queued"],
                                   "Job submitted to cluster"))
    /\ response' = NoResponse
    /\ UNCHANGED <<dataFlows, nextFlowId, nextRunId, notebook, quantum>>

\* 3.2, `queued`: "The run was submitted to the engine and it is pending."
\* Transitions 1, 2 and 4 start `starting` -> `queued`; a run whose data flow
\* references a connection or asset that does not exist cannot be sent.
\* The logs get "Job submitted to cluster 'spark'" (event 1 of the example).
EngineSend(r) ==
    /\ r \in DOMAIN runs
    /\ runs[r].state = "starting"
    /\ runs[r].refs_exist
    /\ runs' = WithRun(r, LogEvent([runs[r] EXCEPT !.state = "queued"],
                                   "Job submitted to cluster"))
    /\ response' = NoResponse
    /\ UNCHANGED <<dataFlows, nextFlowId, nextRunId, notebook, quantum>>

\* 3.2, transition 3: "The run could not be sent to the engine (for example,
\* the connection referenced does not exist): `starting` -> `error`."
EngineSendFailed(r, description) ==
    /\ r \in DOMAIN runs
    /\ runs[r].state = "starting"
    /\ runs' = WithRun(r, [runs[r] EXCEPT !.state = "error",
                                          !.error = ErrorPayload("not_sent", description)])
    /\ response' = NoResponse
    /\ UNCHANGED <<dataFlows, nextFlowId, nextRunId, notebook, quantum>>

\* Faulty variant of EngineStart: the pending run is looked at and left
\* pending.
EngineStart_Stalls(r) ==
    /\ r \in DOMAIN runs
    /\ runs[r].state = "queued"
    /\ response' = NoResponse
    /\ UNCHANGED <<service, notebook, quantum>>

\* 3.2, `running`: "The run is currently in progress."  `queued` -> `running`.
\* The logs get "Job execution started" (event 2 of the example; its event 3
\* is not in the logs).
EngineStart(r) ==
    /\ r \in DOMAIN runs
    /\ runs[r].state = "queued"
    /\ runs' = WithRun(r, SkipEvent(LogEvent(
                    [runs[r] EXCEPT !.state = "running",
                                    !.summary = [NoSummary EXCEPT !.present = TRUE]],
                    "Job execution started")))
    /\ response' = NoResponse
    /\ UNCHANGED <<dataFlows, nextFlowId, nextRunId, notebook, quantum>>

\* The rows read so far by the runs in S.
RECURSIVE RowsRead(_)
RowsRead(S) ==
    IF S = {} THEN 0
    ELSE LET r == CHOOSE x \in S : TRUE
         IN  runs[r].summary.total_rows_read + RowsRead(S \ {r})

\* Faulty variant of EngineProgress: rows are still counted after the run
\* has completed.
EngineProgress_AfterEnd(r, written) ==
    /\ r \in DOMAIN runs
    /\ runs[r].state \in {"running", "stopping", "finished", "stopped"}
    /\ RowsRead(DOMAIN runs) < MaxRows
    /\ runs' = WithRun(r, LogEvent(
                    [runs[r] EXCEPT
                        !.summary.total_rows_read = @ + 1,
                        !.summary.total_rows_written = IF written THEN @ + 1 ELSE @],
                    "engine message"))
    /\ response' = NoResponse
    /\ UNCHANGED <<dataFlows, nextFlowId, nextRunId, notebook, quantum>>

\* 3.1: "During a run, the information in this asset is updated to reflect
\* the current state of the run": one more row is read, and the filter of
\* the flow either passes it on to the target or drops it.  A `stopping`
\* run "was canceled but it is still running".  The engine writes a message
\* of its own to the logs as it works (events 4 and 5 of the example).
EngineProgress(r, written) ==
    /\ r \in DOMAIN runs
    /\ runs[r].state \in {"running", "stopping"}
    /\ RowsRead(DOMAIN runs) < MaxRows
    /\ runs' = WithRun(r, LogEvent(
                    [runs[r] EXCEPT
                        !.summary.total_rows_read = @ + 1,
                        !.summary.total_rows_written = IF written THEN @ + 1 ELSE @],
                    "engine message"))
    /\ response' = NoResponse
    /\ UNCHANGED <<dataFlows, nextFlowId, nextRunId, notebook, quantum>>

\* Faulty variant of EngineFinish: the end of the execution is recorded as a
\* stop, though nobody asked for one.
EngineFinish_Stopped(r) ==
    /\ r \in DOMAIN runs
    /\ runs[r].state = "running"
    /\ runs' = WithRun(r, LogEvent([runs[r] EXCEPT !.state = "stopped"],
                                   "Job execution ended"))
    /\ response' = NoResponse
    /\ UNCHANGED <<dataFlows, nextFlowId, nextRunId, notebook, quantum>>

\* 3.2, transition 1: `running` -> `finished`, "The run finished and was
\* successful."  The logs get "Job execution ended" (the last event of the
\* example), as they do for every execution that ends.
EngineFinish(r) ==
    /\ r \in DOMAIN runs
    /\ runs[r].state = "running"
    /\ runs' = WithRun(r, LogEvent([runs[r] EXCEPT !.state = "finished"],
                                   "Job execution ended"))
    /\ response' = NoResponse
    /\ UNCHANGED <<dataFlows, nextFlowId, nextRunId, notebook, quantum>>

\* Faulty variant of EngineFail: the failure takes down every run of the same
\* data flow that is in execution.
EngineFail_Cascade(r, description) ==
    /\ r \in DOMAIN runs
    /\ runs[r].state = "running"
    /\ runs' = [x \in DOMAIN runs |->
                    IF /\ runs[x].state = "running"
                       /\ runs[x].data_flow_ref = runs[r].data_flow_ref
                    THEN LogEvent(
                             [runs[x] EXCEPT
                                 !.state = "error",
                                 !.error = ErrorPayload("runtime_failed", description)],
                             "Job execution ended")
                    ELSE runs[x]]
    /\ response' = NoResponse
    /\ UNCHANGED <<dataFlows, nextFlowId, nextRunId, notebook, quantum>>

\* Faulty variant of EngineFail: the failed run is handed to the engine again.
EngineFail_Requeues(r, description) ==
    /\ r \in DOMAIN runs
    /\ runs[r].state = "running"
    /\ description \in EngineDescriptions
    /\ runs' = WithRun(r, LogEvent([runs[r] EXCEPT !.state = "queued"],
                                   "Job submitted to cluster"))
    /\ response' = NoResponse
    /\ UNCHANGED <<dataFlows, nextFlowId, nextRunId, notebook, quantum>>

\* 3.2, transition 2: `running` -> `error`; 3.5: "If a data flow run fails,
\* the `state` attribute is set to the value `error`. In addition to this,
\* the run asset itself has an attribute called `error` ..."
EngineFail(r, description) ==
    /\ r \in DOMAIN runs
    /\ runs[r].state = "running"
    /\ runs' = WithRun(r, LogEvent(
                    [runs[r] EXCEPT !.state = "error",
                                    !.error = ErrorPayload("runtime_failed", description)],
                    "Job execution ended"))
    /\ response' = NoResponse
    /\ UNCHANGED <<dataFlows, nextFlowId, nextRunId, notebook, quantum>>

\* Faulty variant of Cancel: the state of the run is not looked at.
Cancel_AnyState(r) ==
    /\ r \in DOMAIN runs
    /\ runs' = WithRun(r, [runs[r] EXCEPT !.state = "stopping"])
    /\ response' = [NoResponse EXCEPT !.op = "cancel", !.id = r,
                                       !.data_flow_ref = runs[r].data_flow_ref]
    /\ UNCHANGED <<dataFlows, nextFlowId, nextRunId, notebook, quantum>>

\* Faulty variant of Cancel: the request is answered and then dropped.
Cancel_Ignored(r) ==
    /\ r \in DOMAIN runs
    /\ response' = [NoResponse EXCEPT !.op = "cancel", !.id = r,
                                       !.data_flow_ref = runs[r].data_flow_ref]
    /\ UNCHANGED <<service, notebook, quantum>>

\* 3.2, `stopping`: "The run was canceled but it is still running."
\* Transition 4 (stopped "at users request") enters `stopping` from `running`
\* only; no transition into `stopping` is documented from any other state.
Cancel(r) ==
    /\ r \in DOMAIN runs
    /\ runs' = IF runs[r].state = "running"
               THEN WithRun(r, [runs[r] EXCEPT !.state = "stopping"])
               ELSE runs
    /\ response' = [NoResponse EXCEPT !.op = "cancel", !.id = r,
                                       !.data_flow_ref = runs[r].data_flow_ref]
    /\ UNCHANGED <<dataFlows, nextFlowId, nextRunId, notebook, quantum>>

\* Faulty variant of EngineStop: the stop is recorded as a failure of the run.
EngineStop_SetsError(r) ==
    /\ r \in DOMAIN runs
    /\ runs[r].state = "stopping"
    /\ runs' = WithRun(r, LogEvent(
                    [runs[r] EXCEPT !.state = "stopped",
                                    !.error = ErrorPayload("stopped", "")],
                    "Job execution ended"))
    /\ response' = NoResponse
    /\ UNCHANGED <<dataFlows, nextFlowId, nextRunId, notebook, quantum>>

\* 3.2, `stopped`: "The run is no longer in progress."  `stopping` -> `stopped`.
EngineStop(r) ==
    /\ r \in DOMAIN runs
    /\ runs[r].state = "stopping"
    /\ runs' = WithRun(r, LogEvent([runs[r] EXCEPT !.state = "stopped"],
                                   "Job execution ended"))
    /\ response' = NoResponse
    /\ UNCHANGED <<dataFlows, nextFlowId, nextRunId, notebook, quantum>>

\* Faulty variant of DeleteDataFlow: the run assets of the flow are left behind.
DeleteDataFlow_KeepsRuns(d) ==
    /\ d \in DOMAIN dataFlows
    /\ dataFlows' = [x \in DOMAIN dataFlows \ {d} |-> dataFlows[x]]
    /\ response' = [NoResponse EXCEPT !.op = "delete_data_flow", !.data_flow_ref = d]
    /\ UNCHANGED <<runs, nextFlowId, nextRunId, notebook, quantum>>

\* 3.1: "If and when the data flow is deleted, any run assets of that data
\* flow are also deleted."
DeleteDataFlow(d) ==
    /\ d \in DOMAIN dataFlows
    /\ dataFlows' = [x \in DOMAIN dataFlows \ {d} |-> dataFlows[x]]
    /\ runs' = [r \in {x \in DOMAIN runs : runs[x].data_flow_ref # d} |-> runs[r]]
    /\ response' = [NoResponse EXCEPT !.op = "delete_data_flow", !.data_flow_ref = d]
    /\ UNCHANGED <<nextFlowId, nextRunId, notebook, quantum>>

\* The steps by which the engine moves a run to its next state.
EngineAdvance(r) ==
    \/ EngineSend(r)
    \/ \E description \in EngineDescriptions : EngineSendFailed(r, description)
    \/ EngineStart(r)
    \/ EngineFinish(r)
    \/ \E description \in EngineDescriptions : EngineFail(r, description)
    \/ EngineStop(r)

\* The notebook and its user address the service through data_flow_id and
\* data_flow_run_id; the engine works on every run that exists.
Next ==
    \/ \E refsExist \in BOOLEAN : CreateDataFlow(refsExist)
    \/ Submit(data_flow_id)
    \/ GetStatus(data_flow_run_id)
    \/ Cancel(data_flow_run_id)
    \/ DeleteDataFlow(data_flow_id)
    \/ \E r \in DOMAIN runs : EngineAdvance(r)
    \/ \E r \in DOMAIN runs, written \in BOOLEAN : EngineProgress(r, written)

Spec == Init /\ [][Next]_vars

\* The engine is a running service: a run that can move on eventually does.
FairSpec == Spec /\ \A r \in 1..MaxRuns : WF_vars(EngineAdvance(r))

\* The notebook as it is written: it runs its data flow once (one POST of
\* 3.3), and reads the logs of that run, whole or page by page.
SubmitOnce ==
    /\ nextRunId = 0
    /\ Submit(data_flow_id)

LogsNext ==
    \/ \E refsExist \in BOOLEAN : CreateDataFlow(refsExist)
    \/ SubmitOnce
    \/ GetStatus(data_flow_run_id)
    \/ GetLogs(data_flow_run_id, 0, DefaultLimit)
    \/ \E offset \in 0..MaxOffset, limit \in 1..MaxLimit :
            GetLogs(data_flow_run_id, offset, limit)
    \/ Cancel(data_flow_run_id)
    \/ DeleteDataFlow(data_flow_id)
    \/ \E r \in DOMAIN runs : EngineAdvance(r)
    \/ \E r \in DOMAIN runs, written \in BOOLEAN : EngineProgress(r, written)

LogsSpec == Init /\ [][LogsNext]_vars

\* The engine's steps for a run that it can run and that it does not fail.
EngineSucceed(r) ==
    \/ EngineSend(r)
    \/ EngineStart(r)
    \/ EngineFinish(r)

\* The service when every data flow references what exists, nobody asks for
\* a run to be stopped and the engine does not fail (3.2, transition 1).
ValidNext ==
    \/ CreateDataFlow(TRUE)
    \/ Submit(data_flow_id)
    \/ GetStatus(data_flow_run_id)
    \/ DeleteDataFlow(data_flow_id)
    \/ \E r \in DOMAIN runs : EngineSucceed(r)
    \/ \E r \in DOMAIN runs, written \in BOOLEAN : EngineProgress(r, written)

ValidSpec ==
    Init /\ [][ValidNext]_vars /\ \A r \in 1..MaxRuns : WF_vars(EngineSucceed(r))

\* ------------------------------------------------------ the quantum adder
\* 2. Define the quantum and classical registers: four qubits, q0 .. q3.
num_qubits == 4

\* An amplitude <<a, b, k>> is the number (a + b * sqrt(2)) / 2^k, kept in
\* lowest terms: these are the amplitudes the operations of the notebook
\* produce from 0 and 1.
Zero == <<0, 0, 0>>
One == <<1, 0, 0>>

RECURSIVE Normal(_)
Normal(z) ==
    IF z[3] > 0 /\ z[1] % 2 = 0 /\ z[2] % 2 = 0
    THEN Normal(<<z[1] \div 2, z[2] \div 2, z[3] - 1>>)
    ELSE z

Plus(y, z) ==
    LET k == IF y[3] > z[3] THEN y[3] ELSE z[3]
    IN  Normal(<<y[1] * 2^(k - y[3]) + z[1] * 2^(k - z[3]),
                 y[2] * 2^(k - y[3]) + z[2] * 2^(k - z[3]),
                 k>>)

Minus(z) == <<0 - z[1], 0 - z[2], z[3]>>

\* z / sqrt(2) = (2b + a * sqrt(2)) / 2^(k+1)
OverSqrt2(z) == Normal(<<2 * z[2], z[1], z[3] + 1>>)

\* |z|^2, the probability of the outcome whose amplitude is z.
Probability(z) ==
    Normal(<<z[1] * z[1] + 2 * z[2] * z[2], 2 * z[1] * z[2], 2 * z[3]>>)

\* The basis states of the register, 0 .. 2^num_qubits - 1, and the value of
\* qubit n in basis state i.
Basis == 0..(2^num_qubits - 1)
Bit(i, n) == (i \div 2^n) % 2

\* Every qubit starts in the ground state |0>.
Ground == [i \in Basis |-> IF i = 0 THEN One ELSE Zero]

\* The X gate: a pi rotation about the X axis, which flips qubit `target`.
x(psi, target) ==
    [i \in Basis |-> IF Bit(i, target) = 0 THEN psi[i + 2^target]
                                           ELSE psi[i - 2^target]]

\* CNOT: "This operation negates the target if the source is excited".
cx(psi, source, target) ==
    [i \in Basis |-> IF Bit(i, source) = 0 THEN psi[i]
                     ELSE IF Bit(i, target) = 0 THEN psi[i + 2^target]
                                                ELSE psi[i - 2^target]]

\* Faulty variant of ch: a controlled X in the place of the controlled
\* Hadamard.
ch_Flips(psi, source, target) ==
    [i \in Basis |-> IF Bit(i, source) = 0 THEN psi[i]
                     ELSE IF Bit(i, target) = 0 THEN psi[i + 2^target]
                                                ELSE psi[i - 2^target]]

\* Controlled Hadamard: if the source is excited, |0> goes to
\* (|0> + |1>) / sqrt(2) = |+x> and |1> to (|0> - |1>) / sqrt(2) = |-x>.
ch(psi, source, target) ==
    [i \in Basis |->
        IF Bit(i, source) = 0 THEN psi[i]
        ELSE IF Bit(i, target) = 0
             THEN OverSqrt2(Plus(psi[i], psi[i + 2^target]))
             ELSE OverSqrt2(Plus(psi[i - 2^target], Minus(psi[i])))]

\* Controlled Z: "changes the phase of the target by rotating pi radians
\* around Z-axis if the source qubit is |1>": the amplitude of |1> of the
\* target changes sign.
cz(psi, source, target) ==
    [i \in Basis |-> IF Bit(i, source) = 1 /\ Bit(i, target) = 1
                     THEN Minus(psi[i]) ELSE psi[i]]

\* An operation of the circuit as qc records it.
Gate(name, qubits) == [name |-> name, qubits |-> qubits]

Apply(psi, gate) ==
    CASE gate.name = "x"  -> x(psi, gate.qubits[1])
      [] gate.name = "cx" -> cx(psi, gate.qubits[1], gate.qubits[2])
      [] gate.name = "ch" -> ch(psi, gate.qubits[1], gate.qubits[2])
      [] gate.name = "cz" -> cz(psi, gate.qubits[1], gate.qubits[2])
      [] OTHER            -> psi

\* The state of the register after the operations of `gates`, in order.
RECURSIVE Statevector(_)
Statevector(gates) ==
    IF gates = << >> THEN Ground
    ELSE Apply(Statevector(SubSeq(gates, 1, Len(gates) - 1)), gates[Len(gates)])

\* 6. Measure: a basis state read as the string of the classical register,
\* "in the order q3, q2, q1, and q0".
Char(b) == IF b = 1 THEN "1" ELSE "0"

\* Faulty variant of Key: the string is read in the order q0, q1, q2, q3.
Key_Reversed(i) == [n \in 1..num_qubits |-> Char(Bit(i, n - 1))]

Key(i) == [n \in 1..num_qubits |-> Char(Bit(i, num_qubits - n))]

\* The outcomes a measurement of all qubits can give in state psi.
Outcomes(psi) == {i \in Basis : psi[i] # Zero}

\* get_counts: the number of shots that gave each string that occurred.
Counts(shots) ==
    [key \in {Key(shots[s]) : s \in DOMAIN shots} |->
        Cardinality({s \in DOMAIN shots : Key(shots[s]) = key})]

\* 3. qc = QuantumCircuit(q, c); "Uncomment to flip either or both": qc.x on
\* each input qubit that is to start in |1>.
InitCircuit(flip0, flip1) ==
    /\ cell = "registers"
    /\ cell' = "circuit"
    /\ qc' = (IF flip0 THEN << Gate("x", <<0>>) >> ELSE << >>)
                \o (IF flip1 THEN << Gate("x", <<1>>) >> ELSE << >>)
    /\ UNCHANGED <<result, result_counts, result_frequencies, stdout, dataflows>>

\* Faulty variant of AddXor: only the first of the two CNOTs is added.
AddXor_FirstOnly ==
    /\ cell = "circuit"
    /\ cell' = "xor"
    /\ qc' = Append(qc, Gate("cx", <<0, 2>>))
    /\ UNCHANGED <<result, result_counts, result_frequencies, stdout, dataflows>>

\* 4. qc.cx(q[0], q[2]); qc.cx(q[1], q[2])
AddXor ==
    /\ cell = "circuit"
    /\ cell' = "xor"
    /\ qc' = Append(Append(qc, Gate("cx", <<0, 2>>)), Gate("cx", <<1, 2>>))
    /\ UNCHANGED <<result, result_counts, result_frequencies, stdout, dataflows>>

\* 5. qc.ch(q[0], q[3]); qc.cz(q[1], q[3]); qc.ch(q[0], q[3])
AddAnd ==
    /\ cell = "xor"
    /\ cell' = "and"
    /\ qc' = Append(Append(Append(qc, Gate("ch", <<0, 3>>)),
                           Gate("cz", <<1, 3>>)),
                    Gate("ch", <<0, 3>>))
    /\ UNCHANGED <<result, result_counts, result_frequencies, stdout, dataflows>>

\* 6. qc.measure(q, c)
AddMeasure ==
    /\ cell = "and"
    /\ cell' = "measure"
    /\ qc' = Append(qc, Gate("measure", [n \in 1..num_qubits |-> n - 1]))
    /\ UNCHANGED <<result, result_counts, result_frequencies, stdout, dataflows>>

\* 7. job = execute(qc, simulator); result = job.result(): each shot gives
\* one of the outcomes the final state allows.
Simulate(shots) ==
    /\ cell = "measure"
    /\ cell' = "simulate"
    /\ shots \in [1..Shots -> Outcomes(Statevector(qc))]
    /\ result' = Counts(shots)
    /\ UNCHANGED <<qc, result_counts, result_frequencies, stdout, dataflows>>

\* The statements of the try block that can raise, in their order.
TrySteps == <<"backends", "get_backend", "execute", "result", "get_counts">>

\* Statement `step` of the try block was completed when the block raised at
\* failedAt ("none": it did not raise).
Completed(step, failedAt) ==
    \/ failedAt = "none"
    \/ \E m, n \in DOMAIN TrySteps :
          TrySteps[m] = step /\ TrySteps[n] = failedAt /\ m < n

\* Faulty variant of HardwareRun: the counts are kept as soon as the job has
\* a result.
HardwareRun_EagerCounts(failedAt, shots) ==
    /\ cell = "simulate"
    /\ cell' = "device"
    /\ stdout' = (IF Completed("get_backend", failedAt)
                  THEN << "Running on device" >> ELSE << >>)
                 \o (IF Completed("result", failedAt)
                     THEN << "experiment" >> ELSE << >>)
                 \o (IF failedAt # "none"
                     THEN << "All devices are currently unavailable." >>
                     ELSE << >>)
    /\ result_counts' = IF Completed("result", failedAt)
                        THEN Counts(shots) ELSE << >>
    /\ UNCHANGED <<qc, result, result_frequencies, dataflows>>

\* 8. The cell of the device run: result_counts = {}, then the try block
\* (backends, get_backend, print, execute, result, print, get_counts), whose
\* bare except prints that the devices are unavailable.  On a device every
\* string can occur in a shot.
HardwareRun(failedAt, shots) ==
    /\ cell = "simulate"
    /\ cell' = "device"
    /\ stdout' = (IF Completed("get_backend", failedAt)
                  THEN << "Running on device" >> ELSE << >>)
                 \o (IF Completed("result", failedAt)
                     THEN << "experiment" >> ELSE << >>)
                 \o (IF failedAt # "none"
                     THEN << "All devices are currently unavailable." >>
                     ELSE << >>)
    /\ result_counts' = IF Completed("get_counts", failedAt)
                        THEN Counts(shots) ELSE << >>
    /\ UNCHANGED <<qc, result, result_frequencies, dataflows>>

\* key[start:stop] of Python, for a string kept as its characters.
Slice(key, start, stop) == SubSeq(key, start + 1, stop)

\* result_frequencies = {'00':0, '01':0, '10':0, '11':0}
NoFrequencies ==
    [freq_key \in {<<"0", "0">>, <<"0", "1">>, <<"1", "0">>, <<"1", "1">>} |-> 0]

\* Faulty variant of FreqKey: the last two characters, q1 q0.
FreqKey_LastTwo(key) == Slice(key, 2, 4)

\* freq_key = key[0:2]
FreqKey(key) == Slice(key, 0, 2)

\* for key in result_counts.keys(): freq_key = key[0:2];
\*     result_frequencies[freq_key] = result_frequencies[freq_key] + result_counts[key]
RECURSIVE TallyLoop(_, _, _)
TallyLoop(keys, counts, frequencies) ==
    IF keys = {} THEN frequencies
    ELSE LET key == CHOOSE k \in keys : TRUE
             freq_key == FreqKey(key)
         IN  TallyLoop(keys \ {key}, counts,
                 [frequencies EXCEPT ![freq_key] = frequencies[freq_key] + counts[key]])

\* The tally cell.
Tally ==
    /\ cell = "device"
    /\ cell' = "tally"
    /\ result_frequencies' = TallyLoop(DOMAIN result_counts, result_counts, NoFrequencies)
    /\ UNCHANGED <<qc, result, result_counts, stdout, dataflows>>

\* The cells of the quantum notebook, run from top to bottom.
AdderNext ==
    \/ \E flip0, flip1 \in BOOLEAN : InitCircuit(flip0, flip1)
    \/ AddXor
    \/ AddAnd
    \/ AddMeasure
    \/ \E shots \in [1..Shots -> Basis] : Simulate(shots)
    \/ \E failedAt \in {"none"} \cup {TrySteps[n] : n \in DOMAIN TrySteps},
          shots \in [1..Shots -> Basis] : HardwareRun(failedAt, shots)
    \/ Tally

AdderSpec == Init /\ [][AdderNext]_vars

\* ------------------------------------------------------------------ claims
\* The runs that exist before and after a step.
Surviving == DOMAIN runs \cap DOMAIN runs'

\* The first message of the `error` attribute is there and is not empty.
HasMessage(error) ==
    /\ error.present
    /\ Len(error.errors) > 0
    /\ error.errors[1].message # ""

\* C1: terminal states are absorbing: once the state of a run is finished,
\* error or stopped, no step (of the engine, a GET of the run, a request to
\* stop it) changes the state of that run for as long as the run exists.
C1_TerminalAbsorbing ==
    [][\A r \in Surviving :
          runs[r].state \in CompletionStates => runs'[r].state = runs[r].state]_vars

\* A stop was just requested for a run that had already completed.
C1_Witness ==
    /\ response.op = "cancel"
    /\ response.id \in DOMAIN runs
    /\ runs[response.id].state \in CompletionStates

\* The state changes of section 3.2 of the specification.
ValidTransitions ==
    { <<"starting", "queued">>, <<"starting", "error">>,
      <<"queued", "running">>,  <<"queued", "error">>,
      <<"running", "finished">>, <<"running", "error">>, <<"running", "stopping">>,
      <<"stopping", "stopped">> }

\* C2: every change of the state of a run is one of the eight transitions
\* starting->queued, starting->error, queued->running, queued->error,
\* running->finished, running->error, running->stopping, stopping->stopped.
C2_OnlyValidTransitions ==
    [][\A r \in Surviving :
          runs'[r].state # runs[r].state
              => <<runs[r].state, runs'[r].state>> \in ValidTransitions]_vars

\* Runs have gone all the way to each of the three states of completion.
C2_Witness ==
    \E r1, r2 \in DOMAIN runs :
        /\ runs[r1].state = "stopped"
        /\ runs[r2].state = "error"
        /\ runs[r2].summary.present

\* C4: a run in state error has its error attribute set, with a message that
\* is not empty, also when the engine had no description of the failure; so
\* a GET of the run never returns state error without an error.
C4_ErrorNeverUnset ==
    /\ \A r \in DOMAIN runs : runs[r].state = "error" => HasMessage(runs[r].error)
    /\ response.state = "error" => HasMessage(response.error)

\* A GET returned a failed run for which the engine had no description.
C4_Witness ==
    /\ response.op = "get_status"
    /\ response.state = "error"
    /\ response.error.errors[1].message = GeneralMessage

\* C5: the error attribute of a run is present exactly when the state of the
\* run is error.
C5_ErrorIffFailed ==
    \A r \in DOMAIN runs : runs[r].error.present <=> runs[r].state = "error"

\* One run has failed and has an error; another was stopped and has none.
C5_Witness ==
    \E r1, r2 \in DOMAIN runs :
        /\ runs[r1].state = "error" /\ runs[r1].error.present
        /\ runs[r2].state = "stopped" /\ ~runs[r2].error.present

\* C6: the run request returns a run in state starting, and every run is in
\* state starting at the moment it is created.
C6_CreatedStarting ==
    /\ [](response.op = "submit" => response.state = "starting")
    /\ [][\A r \in DOMAIN runs' \ DOMAIN runs :
              /\ runs'[r].state = "starting"
              /\ response'.op = "submit"
              /\ response'.id = r]_vars

\* The run request has just returned a second run, while the first is
\* already in execution.
C6_Witness ==
    /\ response.op = "submit"
    /\ response.id \in DOMAIN runs
    /\ runs[response.id].state = "starting"
    /\ \E r \in DOMAIN runs : runs[r].state = "running"

\* C7: a run of a data flow that references a connection or asset that does
\* not exist is only ever in state starting or error, and it ends up in state
\* error with a first message that is not empty: again and again every such
\* run that exists is in state error (and stays there, C1).
C7_MissingReferenceFails ==
    /\ [](\A r \in DOMAIN runs :
             ~runs[r].refs_exist =>
                 /\ runs[r].state \in {"starting", "error"}
                 /\ runs[r].state = "error" => HasMessage(runs[r].error))
    /\ []<>(\A r \in DOMAIN runs : ~runs[r].refs_exist => runs[r].state = "error")

\* A GET returned state error, with its message, for such a run.
C7_Witness ==
    /\ response.op = "get_status"
    /\ response.id \in DOMAIN runs
    /\ ~runs[response.id].refs_exist
    /\ response.state = "error"
    /\ HasMessage(response.error)

\* The run request was for a data flow, still there, whose references do not
\* exist.
SubmittedWithMissingReference ==
    /\ response.op = "submit"
    /\ response.data_flow_ref \in DOMAIN dataFlows
    /\ ~dataFlows[response.data_flow_ref].refs_exist

\* C8 as stated: the run request fails (returns no run) when a connection or
\* asset that the data flow references does not exist.
C8_SubmitFailsOnMissingReference ==
    SubmittedWithMissingReference => response.state \notin States

\* C8 as amended: the run request does not fail when a connection or asset
\* that the data flow references does not exist; it returns a new run in
\* state starting (which then fails, C7).
C8_SubmitSucceedsOnMissingReference ==
    SubmittedWithMissingReference =>
        /\ response.state = "starting"
        /\ response.id \in DOMAIN runs
        /\ runs[response.id].state = "starting"
        /\ runs[response.id].data_flow_ref = response.data_flow_ref

\* The run request for such a data flow has just returned.
C8_Witness ==
    /\ SubmittedWithMissingReference
    /\ response.id \in DOMAIN runs

Requested(op, r) == response'.op = op /\ response'.id = r

C12_GetStatusReadsOnly ==
    /\ [][response'.op = "get_status" =>
              /\ service' = service
              /\ response'.id \in DOMAIN runs
              /\ response'.state = runs[response'.id].state
              /\ response'.summary = runs[response'.id].summary
              /\ response'.error = runs[response'.id].error]_vars
    /\ [][\A r \in Surviving :
              runs'[r] # runs[r] => response'.op \in {"none", "cancel"}]_vars
    /\ [](data_flow_run_id \in DOMAIN runs => ENABLED GetStatus(data_flow_run_id))

\* A GET has just returned a run in execution, with the rows it has read so
\* far, while the run keeps running.
C12_Witness ==
    /\ response.op = "get_status"
    /\ response.state = "running"
    /\ response.summary.total_rows_read > 0
    /\ response.id \in DOMAIN runs
    /\ runs[response.id].state = "running"

\* The pages a client gets that asks for the logs page after page, with the
\* same limit, from the given offset on (offset, offset + limit, ...) until
\* no entry is left, put one after the other.
RECURSIVE PagesFrom(_, _, _)
PagesFrom(logs, offset, limit) ==
    IF offset >= Len(logs) THEN << >>
    ELSE LogsPage(logs, offset, limit) \o PagesFrom(logs, offset + limit, limit)

\* C17: for every run and every limit >= 1, the pages of the logs for the
\* offsets 0, limit, 2*limit, ... put together are the entries, in the same
\* order, that one request with offset 0 and limit = total_count returns
\* (all the entries of the run); and every page a request returned is the
\* part of them from its offset on, of at most limit entries.
C17_PaginationConsistent ==
    /\ \A r \in DOMAIN runs : \A limit \in 1..MaxLimit :
           /\ PagesFrom(runs[r].logs, 0, limit)
                  = LogsPage(runs[r].logs, 0, Len(runs[r].logs))
           /\ LogsPage(runs[r].logs, 0, Len(runs[r].logs)) = runs[r].logs
    /\ (response.op = "get_logs" /\ response.id \in DOMAIN runs) =>
           /\ response.total_count = Len(runs[response.id].logs)
           /\ Len(response.logs) <= response.limit
           /\ \A i \in 1..Len(response.logs) :
                  response.logs[i] = runs[response.id].logs[response.offset + i]
           /\ response.offset + Len(response.logs) < response.total_count
                  => Len(response.logs) = response.limit

\* A request has just returned the last page of the logs of a run, a page
\* that is not the first and is shorter than the limit.
C17_Witness ==
    /\ response.op = "get_logs"
    /\ response.offset > 0
    /\ Len(response.logs) > 0
    /\ Len(response.logs) < response.limit
    /\ response.offset + Len(response.logs) = response.total_count

\* The sequence s is the beginning of the sequence t.
IsPrefix(s, t) == Len(s) <= Len(t) /\ SubSeq(t, 1, Len(s)) = s

\* C18: the logs of a run only grow at the end: in every step the logs a run
\* had are the beginning of the logs it has afterwards (so the logs of any
\* earlier moment are the beginning of the logs of any later one, with no
\* entry removed, changed or moved), and the event ids of the entries are
\* strictly increasing along the logs.
C18_LogsAppendOnly ==
    /\ [][\A r \in Surviving : IsPrefix(runs[r].logs, runs'[r].logs)]_vars
    /\ [](\A r \in DOMAIN runs : \A i, j \in 1..Len(runs[r].logs) :
             i < j => runs[r].logs[i].event_id < runs[r].logs[j].event_id)

\* A run has ended with the logs of its whole execution, in which an event
\* id is left out.
C18_Witness ==
    \E r \in DOMAIN runs :
        /\ runs[r].state \in CompletionStates
        /\ Len(runs[r].logs) >= 5
        /\ runs[r].logs[4].event_id > runs[r].logs[3].event_id + 1
        /\ runs[r].logs[Len(runs[r].logs)].message_text = "Job execution ended"

\* C19: every run that exists refers to a data flow that exists; a run is
\* removed only in the step that deletes its data flow, and that step
\* removes every run of the data flow; so no GET of a run and no stop
\* request removes a run.
C19_RunsDeletedWithDataFlow ==
    /\ [](\A r \in DOMAIN runs : runs[r].data_flow_ref \in DOMAIN dataFlows)
    /\ [][\A r \in DOMAIN runs \ DOMAIN runs' :
              /\ response'.op = "delete_data_flow"
              /\ response'.data_flow_ref = runs[r].data_flow_ref
              /\ runs[r].data_flow_ref \notin DOMAIN dataFlows']_vars
    /\ [][\A r \in DOMAIN runs :
              runs[r].data_flow_ref \notin DOMAIN dataFlows' => r \notin DOMAIN runs']_vars
    /\ [][response'.op \in {"get_status", "cancel"} => DOMAIN runs' = DOMAIN runs]_vars

\* The data flow has just been deleted, and the two runs it had with it.
C19_Witness ==
    /\ response.op = "delete_data_flow"
    /\ nextRunId >= 2
    /\ response.data_flow_ref \notin DOMAIN dataFlows
    /\ \A r \in DOMAIN runs : runs[r].data_flow_ref # response.data_flow_ref

\* C20: runs are independent: a GET of a run or a stop request for it leaves
\* every other run (state, summary, error, logs) as it is; every step, the
\* engine's included, changes at most one of the runs that are there before
\* and after it; a step that creates or deletes runs changes no other run;
\* and what a GET of a run returns is the state of that run.
C20_RunsIndependent ==
    /\ [][\A r \in Surviving :
              (response'.op \in {"get_status", "cancel"} /\ response'.id # r)
                  => runs'[r] = runs[r]]_vars
    /\ [][\A r1, r2 \in Surviving :
              (runs'[r1] # runs[r1] /\ runs'[r2] # runs[r2]) => r1 = r2]_vars
    /\ [][DOMAIN runs' # DOMAIN runs =>
              \A r \in Surviving : runs'[r] = runs[r]]_vars
    /\ []((response.op = "get_status" /\ response.id \in DOMAIN runs) =>
              response = RunResponse("get_status", response.id, runs[response.id]))

\* A stop request has just put one run in state stopping while another run
\* goes on running.
C20_Witness ==
    /\ response.op = "cancel"
    /\ response.id \in DOMAIN runs
    /\ runs[response.id].state = "stopping"
    /\ \E r \in DOMAIN runs : r # response.id /\ runs[r].state = "running"

\* C21: each run request creates a new run: the id it returns is larger than
\* every id handed out before (the ids of runs deleted since included, as
\* the ids of the runs that exist never exceed the number handed out, which
\* never goes down), it is the id of no run that exists, and the step leaves
\* every run that exists as it is.
C21_NewRunEachSubmit ==
    /\ [](\A r \in DOMAIN runs : r \in 1..nextRunId)
    /\ [][nextRunId' >= nextRunId]_vars
    /\ [][\A r \in DOMAIN runs' \ DOMAIN runs :
              /\ r > nextRunId
              /\ Requested("submit", r)
              /\ data_flow_run_id' = r]_vars
    /\ [][response'.op = "submit" =>
              /\ response'.id \notin DOMAIN runs
              /\ response'.id \in DOMAIN runs'
              /\ \A r \in DOMAIN runs : r \in DOMAIN runs' /\ runs'[r] = runs[r]]_vars

\* The data flow has just been run a second time, after its first run had
\* finished.
C21_Witness ==
    /\ response.op = "submit"
    /\ response.id = 2
    /\ {1, 2} \subseteq DOMAIN runs
    /\ runs[1].data_flow_ref = runs[2].data_flow_ref
    /\ runs[1].state = "finished"

\* How far a state is along the life cycle of 3.2.
Rank(state) ==
    CASE state = "starting" -> 0
      [] state = "queued"   -> 1
      [] state = "running"  -> 2
      [] state = "stopping" -> 3
      [] OTHER              -> 4

\* C22: the progress of a run is monotonic: every change of its state takes
\* it further along starting, queued, running, stopping, completed (some may
\* be skipped), so a phase state it has left is never its state again.
C22_MonotonicProgress ==
    [][\A r \in Surviving :
          runs'[r].state # runs[r].state
              => Rank(runs'[r].state) > Rank(runs[r].state)]_vars

\* A run has gone through every phase: it read rows while it was running or
\* stopping and is now stopped.
C22_Witness ==
    \E r \in DOMAIN runs :
        /\ runs[r].state = "stopped"
        /\ runs[r].summary.total_rows_read > 0

\* C23: with data flows that reference what exists, no stop request and an
\* engine that does not fail, every run ends up finished: a run is only ever
\* starting, queued, running or finished, again and again every run that
\* exists is finished, and a finished run has its summary, with row counts
\* that are natural numbers, which is what a GET of it returns.
C23_ValidRunFinishes ==
    /\ [](\A r \in DOMAIN runs :
             /\ runs[r].state \in {"starting", "queued", "running", "finished"}
             /\ runs[r].state = "finished" =>
                    /\ runs[r].summary.present
                    /\ runs[r].summary.total_rows_read \in Nat
                    /\ runs[r].summary.total_rows_written \in Nat)
    /\ []((response.op = "get_status" /\ response.state = "finished") =>
              /\ response.summary.present
              /\ response.summary.total_rows_read >= 0
              /\ response.summary.total_rows_written >= 0)
    /\ []<>(\A r \in DOMAIN runs : runs[r].state = "finished")

\* A GET has just returned a finished run with the rows it read and wrote.
C23_Witness ==
    /\ response.op = "get_status"
    /\ response.state = "finished"
    /\ response.summary.total_rows_read > 0
    /\ response.summary.total_rows_written > 0
    /\ \A r \in DOMAIN runs : runs[r].state = "finished"

\* C24: the summary of a run is final once the run has completed: it may
\* change while the run is starting, queued, running or stopping, but no
\* step changes the summary of a run whose state is finished, error or
\* stopped; so a GET of a completed run returns the summary the run had
\* when it completed.
C24_SummaryFinal ==
    /\ [][\A r \in Surviving :
              runs[r].state \in CompletionStates
                  => runs'[r].summary = runs[r].summary]_vars
    /\ [][\A r \in Surviving :
              runs'[r].summary # runs[r].summary
                  => runs'[r].state \in {"running", "stopping"}]_vars
    /\ [][(response'.op = "get_status" /\ response.op = "get_status"
              /\ response'.id = response.id /\ response.state \in CompletionStates)
                  => response'.summary = response.summary]_vars

\* A GET has just returned a stopped run whose summary changed while the
\* run was in progress.
C24_Witness ==
    /\ response.op = "get_status"
    /\ response.state = "stopped"
    /\ response.summary.total_rows_read > 0

\* The output ports a node declares, and the links of its input ports.
OutputPorts(node) ==
    IF "output" \in DOMAIN node THEN {node.output.id}
    ELSE IF "outputs" \in DOMAIN node
         THEN {node.outputs[i].id : i \in DOMAIN node.outputs}
         ELSE {}

InputLinks(node) ==
    IF "input" \in DOMAIN node THEN {node.input.link}
    ELSE IF "inputs" \in DOMAIN node
         THEN UNION {{node.inputs[i].links[j] : j \in DOMAIN node.inputs[i].links}
                        : i \in DOMAIN node.inputs}
         ELSE {}

InputPorts(node) ==
    IF "input" \in DOMAIN node THEN {node.input.id}
    ELSE IF "inputs" \in DOMAIN node
         THEN {node.inputs[i].id : i \in DOMAIN node.inputs}
         ELSE {}

\* The nodes are source1, operation1, target1 in that order; every link names
\* a node earlier in the list and an output port that node declares; the
\* source has one output and no inputs, the target one input and no outputs.
WellFormedPipeline(nodes) ==
    /\ [i \in DOMAIN nodes |-> nodes[i].id] = <<"source1", "operation1", "target1">>
    /\ \A i \in DOMAIN nodes : \A link \in InputLinks(nodes[i]) :
           \E j \in 1..(i - 1) :
               /\ nodes[j].id = link.node_id_ref
               /\ link.port_id_ref \in OutputPorts(nodes[j])
    /\ Cardinality(OutputPorts(nodes[1])) = 1
    /\ InputPorts(nodes[1]) = {}
    /\ Cardinality(InputPorts(nodes[3])) = 1
    /\ Cardinality(InputLinks(nodes[3])) = 1
    /\ OutputPorts(nodes[3]) = {}

\* C28: the data flow the notebook posts, as the response of the POST
\* returns it, is a well-formed linear pipeline: its nodes are source1,
\* operation1, target1 in that order, every link names a node earlier in the
\* list and an output port of it (so the links form no cycle), the source
\* has one output and no inputs and the target one input and no outputs.
C28_PipelineWellFormed ==
    response.op = "create_data_flow" => WellFormedPipeline(response.nodes)

\* The data flow has just been posted and is stored; its three nodes are in
\* the response.
C28_Witness ==
    /\ response.op = "create_data_flow"
    /\ response.data_flow_ref \in DOMAIN dataFlows
    /\ Len(response.nodes) = 3
    /\ runs = << >>
\* ------------------------------------------------------ claims: the adder
\* The input the circuit was given on qubit n: 1 if its X gate was added.
Input(n) == IF \E k \in DOMAIN qc : qc[k] = Gate("x", <<n>>) THEN 1 ELSE 0

\* The cells that define the input, the XOR and the AND have been run.
AdderBuilt == cell \notin {"registers", "circuit", "xor"}

\* C25: for each of the four inputs, in the state the circuit produces every
\* possible outcome has q2 = q0 XOR q1 and q3 = q0 AND q1, so that q3 q2 is
\* q0 + q1, one outcome has probability 1, and the simulator counts all its
\* shots on strings that begin with these two bits.
C25_AdderAdds ==
    AdderBuilt =>
        LET psi == Statevector(qc)
            sum == (Input(0) + Input(1)) % 2
            carry == Input(0) * Input(1)
        IN  /\ \A i \in Outcomes(psi) :
                   /\ Bit(i, 2) = sum
                   /\ Bit(i, 3) = carry
                   /\ 2 * Bit(i, 3) + Bit(i, 2) = Input(0) + Input(1)
            /\ \E i \in Basis : Probability(psi[i]) = One
            /\ cell \in {"simulate", "device", "tally"} =>
                   \A key \in DOMAIN result :
                       /\ Slice(key, 0, 2) = <<Char(carry), Char(sum)>>
                       /\ result[key] = Shots

\* The simulator has run the circuit for q0 = 1, q1 = 0 and counted every
\* shot on 0101.
C25_Witness ==
    /\ cell = "simulate"
    /\ Input(0) = 1
    /\ Input(1) = 0
    /\ DOMAIN result = {<<"0", "1", "0", "1">>}

\* The four points of the Bloch sphere the construction uses, as the
\* amplitudes of |0> and |1>.
Ket0 == <<One, Zero>>
Ket1 == <<Zero, One>>
KetPlusX == <<OverSqrt2(One), OverSqrt2(One)>>
KetMinusX == <<OverSqrt2(One), Minus(OverSqrt2(One))>>

\* In state psi qubit n is in state ket and every other qubit is |0> or |1>.
QubitIs(psi, n, ket) ==
    \E base \in {i \in Basis : Bit(i, n) = 0} :
        psi = [i \in Basis |-> IF i = base THEN ket[1]
                               ELSE IF i = base + 2^n THEN ket[2] ELSE Zero]

\* The position in qc of Operation 1 of the AND, and the state of the
\* register after Operation m.
Operation1 == CHOOSE k \in DOMAIN qc :
                  qc[k].name = "ch" /\ \A j \in 1..(k - 1) : qc[j].name # "ch"
AfterOperation(m) == Statevector(SubSeq(qc, 1, Operation1 + m - 1))

\* C26: after each of the three operations of the AND q3 is at one of |0>,
\* |1>, |+x>, |-x>; after Operation 1 it is |+x> if q0 is 1 and |0> if not;
\* after Operation 2 it is |0> for q1 q0 = 00, |+x> for 01, |0> for 10 and
\* |-x> for 11; Operation 3 changes nothing if q0 is 0 and takes |+x> to
\* |0> and |-x> to |1> if q0 is 1.
C26_AndIntermediateStates ==
    AdderBuilt =>
        /\ \A m \in 1..3 : \E ket \in {Ket0, Ket1, KetPlusX, KetMinusX} :
               QubitIs(AfterOperation(m), 3, ket)
        /\ QubitIs(AfterOperation(1), 3, IF Input(0) = 1 THEN KetPlusX ELSE Ket0)
        /\ QubitIs(AfterOperation(2), 3,
                   CASE Input(1) = 0 /\ Input(0) = 0 -> Ket0
                     [] Input(1) = 0 /\ Input(0) = 1 -> KetPlusX
                     [] Input(1) = 1 /\ Input(0) = 0 -> Ket0
                     [] Input(1) = 1 /\ Input(0) = 1 -> KetMinusX)
        /\ Input(0) = 0 => AfterOperation(3) = AfterOperation(2)
        /\ Input(0) = 1 =>
               /\ QubitIs(AfterOperation(2), 3, KetPlusX)
                      => QubitIs(AfterOperation(3), 3, Ket0)
               /\ QubitIs(AfterOperation(2), 3, KetMinusX)
                      => QubitIs(AfterOperation(3), 3, Ket1)

\* The AND cell has just run for q1 q0 = 11: q3 went through |+x> and |-x>
\* to |1>.
C26_Witness ==
    /\ cell = "and"
    /\ Input(0) = 1
    /\ Input(1) = 1
    /\ QubitIs(AfterOperation(1), 3, KetPlusX)
    /\ QubitIs(AfterOperation(2), 3, KetMinusX)
    /\ QubitIs(AfterOperation(3), 3, Ket1)

\* The string the claim expects of a measurement: (q0 AND q1) (q0 XOR q1)
\* q1 q0.
ExpectedString ==
    <<Char(Input(0) * Input(1)), Char((Input(0) + Input(1)) % 2),
      Char(Input(1)), Char(Input(0))>>

\* C27: after every operation added to the circuit q0 and q1 hold their
\* input values; once the adder is built every possible outcome reads
\* (q0 AND q1) (q0 XOR q1) q1 q0, which is 1011 for q0 = q1 = 1, and the
\* simulator reports exactly that string.
C27_InputsUnchanged ==
    /\ cell # "registers" =>
           \A n \in (Input(0) + Input(1))..Len(qc) :
               \A i \in Outcomes(Statevector(SubSeq(qc, 1, n))) :
                   Bit(i, 0) = Input(0) /\ Bit(i, 1) = Input(1)
    /\ AdderBuilt =>
           /\ \A i \in Outcomes(Statevector(qc)) : Key(i) = ExpectedString
           /\ Input(0) = 1 /\ Input(1) = 1
                  => ExpectedString = <<"1", "0", "1", "1">>
           /\ cell \in {"simulate", "device", "tally"}
                  => DOMAIN result = {ExpectedString}

\* The simulator has run the notebook's input q0 = q1 = 1 and reports 1011
\* for all shots.
C27_Witness ==
    /\ cell = "simulate"
    /\ Input(0) = 1
    /\ Input(1) = 1
    /\ result = [key \in {<<"1", "0", "1", "1">>} |-> Shots]

\* The sum of counts over the strings of keys.
RECURSIVE SumOf(_, _)
SumOf(keys, counts) ==
    IF keys = {} THEN 0
    ELSE LET key == CHOOSE k \in keys : TRUE
         IN  counts[key] + SumOf(keys \ {key}, counts)

\* C29: after the tally cell each of the buckets 00, 01, 10, 11 holds the
\* sum of the counts of the strings whose first two characters are the
\* bucket, and the four buckets add up to the sum of all counts, which is
\* the number of shots when the device run gave counts.
C29_TallyConservesShots ==
    cell = "tally" =>
        /\ DOMAIN result_frequencies = DOMAIN NoFrequencies
        /\ \A bucket \in DOMAIN result_frequencies :
               result_frequencies[bucket] =
                   SumOf({key \in DOMAIN result_counts : Slice(key, 0, 2) = bucket},
                         result_counts)
        /\ SumOf(DOMAIN result_frequencies, result_frequencies)
               = SumOf(DOMAIN result_counts, result_counts)
        /\ DOMAIN result_counts # {}
               => SumOf(DOMAIN result_frequencies, result_frequencies) = Shots

\* The tally has added the counts of two different strings into one bucket
\* and left the other buckets at 0.
C29_Witness ==
    /\ cell = "tally"
    /\ \E key1, key2 \in DOMAIN result_counts :
           /\ key1 # key2
           /\ Slice(key1, 0, 2) = Slice(key2, 0, 2)
           /\ result_frequencies[Slice(key1, 0, 2)] = Shots

\* The except branch of the device run was taken.
Unavailable ==
    /\ stdout # << >>
    /\ stdout[Len(stdout)] = "All devices are currently unavailable."

\* C30: if a statement of the try block raised, the cell still ends, with
\* result_counts empty, and the tally that follows reports 0 for 00, 01, 10
\* and 11; result_counts is non-empty only if every statement of the try
\* block succeeded, that is, both prints happened and the except branch was
\* not taken.
C30_FailedRunLeavesNoCounts ==
    cell \in {"device", "tally"} =>
        /\ Unavailable => DOMAIN result_counts = {}
        /\ DOMAIN result_counts # {}
               => stdout = << "Running on device", "experiment" >>
        /\ cell = "tally" /\ Unavailable
               => result_frequencies = NoFrequencies

\* execute raised after the device was obtained; the tally then ran and
\* reports 0 four times.
C30_Witness ==
    /\ cell = "tally"
    /\ stdout = << "Running on device", "All devices are currently unavailable." >>
    /\ DOMAIN result_counts = {}
    /\ \A bucket \in DOMAIN NoFrequencies : result_frequencies[bucket] = 0
=============================================================================
